---- MODULE Spec2Model ----
(***************************************************************************)
(* A model of chatbot/app.py: the bounded per-session conversation store   *)
(* (ConversationManager), the sliding-window rate limiter (RateLimiter),   *)
(* the token estimate (TokenCounter), the input validation and the request *)
(* handler (lambda_handler) that strings them together around one call to  *)
(* the remote model.                                                       *)
(*                                                                         *)
(* The specifications share the state:                                     *)
(*   SpecStore    the conversation store called directly, one add_message  *)
(*                or get_history at a time;                                *)
(*   SpecLimiter  the rate limiter called directly, one is_allowed at a    *)
(*                time, with a clock;                                      *)
(*   SpecLimiterFair                                                       *)
(*                the same, with a clock that keeps moving and clients     *)
(*                that keep calling;                                       *)
(*   Spec         lambda_handler serving one request at a time, split at   *)
(*                the one point where it waits: bedrock.invoke_model;      *)
(*   SpecLogged   the same handler with a log of its model calls;          *)
(*   SpecThreads  lambda_handler on two threads that share the globals,    *)
(*                switched between the statements of is_allowed and of     *)
(*                add_message;                                             *)
(*   SpecId       generate_conversation_id called directly on every shape  *)
(*                of request metadata;                                     *)
(*   SpecValidate validate_input and estimate_tokens called directly on    *)
(*                texts of many lengths.                                   *)
(***************************************************************************)
EXTENDS Integers, Sequences, FiniteSets, TLC

(***************************************************************************)
(* Configuration.  max_history, max_requests and window_seconds are        *)
(* constructor parameters (defaults 10, 10 and 60 s); the model runs the   *)
(* same code with smaller values so that eviction, denial and expiry all   *)
(* happen within the clock's horizon.                                      *)
(***************************************************************************)
max_history == 2

max_requests == 2

window_seconds == 1

\* The clock's horizon: time.time() takes the values 0..MaxTime while the
\* objects are called directly, and 0..MaxHandlerTime while lambda_handler
\* serves requests.
MaxTime == 3

MaxHandlerTime == 1

\* validate_input: "if len(message) > 2000".
MaxMessageLength == 2000

\* estimate_tokens: "len(text) // 4".
CharsPerToken == 4

(***************************************************************************)
(* Python values that reach the handler.  A value is a record              *)
(* [t, s, n]: t its type, s the pieces a str is written with (they tell    *)
(* two texts apart, and the scan of validate_input looks for its patterns  *)
(* among them), n the length of a str or list and the value of an int.     *)
(***************************************************************************)
PyStr(s, n) == [t |-> "str", s |-> s, n |-> n]

PyNone == [t |-> "none", s |-> <<>>, n |-> 0]

PyInt(n) == [t |-> "int", s |-> <<>>, n |-> n]

PyList(n) == [t |-> "list", s |-> <<>>, n |-> n]

\* Python truthiness: None, "", 0 and [] are falsy.
Falsy(v) == v.t = "none" \/ v.n = 0

\* len(v) is defined for str and list and raises TypeError otherwise.
HasLen(v) == v.t \in {"str", "list"}

PyLen(v) == v.n

Max(a, b) == IF a >= b THEN a ELSE b

(***************************************************************************)
(* TokenCounter                                                            *)
(***************************************************************************)
\* estimate_tokens that rounds up: a token for every begun group of four
\* characters.
estimate_tokens_RoundUp(text) ==
    Max(1, (PyLen(text) + CharsPerToken - 1) \div CharsPerToken)

\* estimate_tokens: max(1, len(text) // 4); len() raises on None and int,
\* which the callers' guards below account for.
estimate_tokens(text) == Max(1, PyLen(text) \div CharsPerToken)

(***************************************************************************)
(* ConversationManager                                                     *)
(***************************************************************************)
ChatMessage(role, content, timestamp, token_count) ==
    [role |-> role, content |-> content, timestamp |-> timestamp,
     token_count |-> token_count]

\* add_message with the bound left out: nothing is ever popped.
add_message_Unbounded(cache, conversation_id, message) ==
    LET created == IF conversation_id \in DOMAIN cache
                   THEN cache
                   ELSE cache @@ (conversation_id :> <<>>)
    IN  [created EXCEPT ![conversation_id] = Append(@, message)]

\* add_message on one list that all sessions share (a default made once
\* and handed to every entry): the message shows in every session.
add_message_SharedList(cache, conversation_id, message) ==
    LET created == IF conversation_id \in DOMAIN cache
                   THEN cache
                   ELSE cache @@ (conversation_id :> <<>>)
    IN  [id \in DOMAIN created |->
            IF Len(created[id]) >= max_history
            THEN Tail(Append(created[id], message))
            ELSE Append(created[id], message)]

\* add_message with pop() for pop(0): the newest message goes, not the
\* oldest.
add_message_PopNewest(cache, conversation_id, message) ==
    LET created  == IF conversation_id \in DOMAIN cache
                    THEN cache
                    ELSE cache @@ (conversation_id :> <<>>)
        appended == Append(created[conversation_id], message)
    IN  [created EXCEPT ![conversation_id] =
            IF Len(appended) > max_history
            THEN SubSeq(appended, 1, Len(appended) - 1)
            ELSE appended]

\* add_message on the dict `cache`: the entry is created when missing, the
\* message appended, and one message popped from the front when the list
\* has grown past max_history.  The value is the dict after the call.
add_message(cache, conversation_id, message) ==
    LET created == IF conversation_id \notin DOMAIN cache
                   THEN cache @@ (conversation_id :> <<>>)
                   ELSE cache
        appended == Append(created[conversation_id], message)
        history  == IF Len(appended) > max_history
                    THEN Tail(appended)
                    ELSE appended
    IN  [created EXCEPT ![conversation_id] = history]

\* get_history: [] for an unknown id, else the {role, content} pairs of the
\* stored messages, in stored order.
get_history(cache, conversation_id) ==
    IF conversation_id \notin DOMAIN cache
    THEN <<>>
    ELSE [i \in 1..Len(cache[conversation_id]) |->
            [role    |-> cache[conversation_id][i].role,
             content |-> cache[conversation_id][i].content]]

\* get_history with dict.setdefault for the test of membership: asking for
\* an unknown session leaves an empty entry behind.
get_history_store_SetDefault(cache, conversation_id) ==
    IF conversation_id \in DOMAIN cache
    THEN cache
    ELSE cache @@ (conversation_id :> <<>>)

\* The dict after get_history: it tests "conversation_id not in
\* self._conversation_cache" and reads, and assigns nothing.
get_history_store(cache, conversation_id) == cache

(***************************************************************************)
(* RateLimiter                                                             *)
(***************************************************************************)
\* The window test with <= for <: a timestamp aged exactly window_seconds
\* stays.
InWindow_Inclusive(current_time, req_time) ==
    current_time - req_time <= window_seconds

\* The list comprehension of is_allowed: the timestamps still in the window.
InWindow(current_time, req_time) == current_time - req_time < window_seconds

\* The bucket kept whole: no timestamp is ever dropped.
Pruned_Nothing(bucket, current_time) == bucket

Pruned(bucket, current_time) ==
    SelectSeq(bucket, LAMBDA req_time : InWindow(current_time, req_time))

\* is_allowed with <= for < in the test of the limit: one request too many
\* is let through.
is_allowed_OffByOne(bks, identifier, current_time) ==
    LET created == IF identifier \in DOMAIN bks
                   THEN bks
                   ELSE bks @@ (identifier :> <<>>)
        pruned  == SelectSeq(created[identifier],
                             LAMBDA t : current_time - t < window_seconds)
    IN  IF Len(pruned) <= max_requests
        THEN [buckets |-> [created EXCEPT
                              ![identifier] = Append(pruned, current_time)],
              allowed |-> TRUE]
        ELSE [buckets |-> [created EXCEPT ![identifier] = pruned],
              allowed |-> FALSE]

\* is_allowed that records the request before it tests the limit: a denied
\* request takes a slot too.
is_allowed_ConsumeOnDeny(bks, identifier, current_time) ==
    LET created == IF identifier \in DOMAIN bks
                   THEN bks
                   ELSE bks @@ (identifier :> <<>>)
        pruned  == SelectSeq(created[identifier],
                             LAMBDA t : current_time - t < window_seconds)
    IN  [buckets |-> [created EXCEPT
                         ![identifier] = Append(pruned, current_time)],
         allowed |-> Len(pruned) < max_requests]

\* is_allowed at clock value current_time on the dict `bks`: the bucket is
\* created when missing and replaced by its pruned copy; under the limit the
\* current time is appended and the call returns True, else False.
is_allowed(bks, identifier, current_time) ==
    LET created == IF identifier \notin DOMAIN bks
                   THEN bks @@ (identifier :> <<>>)
                   ELSE bks
        pruned  == Pruned(created[identifier], current_time)
    IN  IF Len(pruned) < max_requests
        THEN [buckets |-> [created EXCEPT
                              ![identifier] = Append(pruned, current_time)],
              allowed |-> TRUE]
        ELSE [buckets |-> [created EXCEPT ![identifier] = pruned],
              allowed |-> FALSE]

(***************************************************************************)
(* The event.  A str of the request metadata is a sequence of pieces, so   *)
(* that the f-string below is a concatenation.  A dict lookup is a record  *)
(* [k, v]: k = "absent" (no such key), "null" (the key holds None) or      *)
(* "val" (it holds v).  requestContext, identity and headers are "absent", *)
(* "null" or "obj" (a dict).  The body is "absent", "null", "invalid" (a   *)
(* str that is no JSON), "nonobject" (JSON, but no dict) or "object", and  *)
(* then message is the lookup of its "message" key.                        *)
(***************************************************************************)
Absent == [k |-> "absent", v |-> <<>>]

Null == [k |-> "null", v |-> <<>>]

Val(v) == [k |-> "val", v |-> v]

\* dict.get(key, default) followed by the f-string's str(): the default for
\* a missing key, "None" for a key that holds None.
GetStr(lookup, default) ==
    CASE lookup.k = "absent" -> default
      [] lookup.k = "null"   -> <<"None">>
      [] OTHER               -> lookup.v

\* event.get('requestContext', {}).get('identity', {}).get('sourceIp',
\* 'unknown'): .get on None raises AttributeError.
SourceIpRaises(event) ==
    \/ event.requestContext = "null"
    \/ event.requestContext = "obj" /\ event.identity = "null"

source_ip(event) ==
    IF event.requestContext = "obj" /\ event.identity = "obj"
    THEN GetStr(event.sourceIp, <<"unknown">>)
    ELSE <<"unknown">>

\* event.get('headers', {}).get('User-Agent', 'unknown')
UserAgentRaises(event) == event.headers = "null"

user_agent(event) ==
    IF event.headers = "obj"
    THEN GetStr(event.userAgent, <<"unknown">>)
    ELSE <<"unknown">>

GenerateIdRaises(event) == SourceIpRaises(event) \/ UserAgentRaises(event)

\* hashlib.md5(identifier.encode()).hexdigest()[:16]: a digest is told from
\* the str it digests, and two identifiers have the same digest only when
\* they are the same str (no collision among the identifiers modelled).
md5(identifier) == [md5 |-> identifier]

\* generate_conversation_id, for an event on which it does not raise.
generate_conversation_id(event) ==
    md5(source_ip(event) \o <<":">> \o user_agent(event))

\* json.loads(event.get("body", "{}")) and body.get("message", ""):
\* json.loads raises on None and on a str that is no JSON, .get raises on a
\* JSON value that is no dict.
ParseRaises(event) == event.body \in {"null", "invalid", "nonobject"}

user_input(event) ==
    IF event.body = "absent" \/ event.message.k = "absent"
    THEN PyStr(<<>>, 0)
    ELSE IF event.message.k = "null" THEN PyNone ELSE event.message.v

(***************************************************************************)
(* validate_input.  The result is the dict returned, with raised = TRUE    *)
(* when the function raises instead: len() of an int (TypeError) or        *)
(* .lower() of a list (AttributeError).  The scan for injection patterns   *)
(* only logs: Detected is what it writes to the log.                       *)
(***************************************************************************)
dangerous_patterns ==
    {"ignore previous instructions", "system:", "assistant:"}

\* str.lower() of one piece of a text.
lower(piece) ==
    CASE piece = "Ignore Previous Instructions" ->
             "ignore previous instructions"
      [] piece = "IGNORE PREVIOUS INSTRUCTIONS" ->
             "ignore previous instructions"
      [] piece = "System:"    -> "system:"
      [] piece = "SYSTEM:"    -> "system:"
      [] piece = "Assistant:" -> "assistant:"
      [] piece = "Hi"         -> "hi"
      [] OTHER                -> piece

\* message_lower = message.lower()
message_lower(message) == [i \in 1..Len(message.s) |-> lower(message.s[i])]

\* The patterns the loop finds ("if pattern in message_lower") and warns
\* of; a pattern is one piece of a text.
Detected(message) ==
    {pattern \in dangerous_patterns :
        \E i \in 1..Len(message.s) : message_lower(message)[i] = pattern}

\* validate_input that turns a message with a pattern down instead of
\* logging it.
validate_input_RejectSuspicious(message) ==
    IF message.t = "none" \/ message.n = 0
    THEN [raised |-> FALSE, valid |-> FALSE,
          error |-> "Message cannot be empty",
          estimated_tokens |-> 0, length |-> 0]
    ELSE IF message.t # "str"
    THEN [raised |-> TRUE, valid |-> FALSE, error |-> "",
          estimated_tokens |-> 0, length |-> 0]
    ELSE IF message.n > MaxMessageLength
    THEN [raised |-> FALSE, valid |-> FALSE,
          error |-> "Message too long (max 2000 characters)",
          estimated_tokens |-> 0, length |-> 0]
    ELSE IF Detected(message) # {}
    THEN [raised |-> FALSE, valid |-> FALSE,
          error |-> "Potential prompt injection detected",
          estimated_tokens |-> 0, length |-> 0]
    ELSE [raised |-> FALSE, valid |-> TRUE, error |-> "",
          estimated_tokens |-> Max(1, message.n \div CharsPerToken),
          length |-> message.n]

\* validate_input without the test of the length.
validate_input_NoLengthCheck(message) ==
    IF message.t = "none" \/ message.n = 0
    THEN [raised |-> FALSE, valid |-> FALSE,
          error |-> "Message cannot be empty",
          estimated_tokens |-> 0, length |-> 0]
    ELSE [raised |-> message.t # "str", valid |-> message.t = "str",
          error |-> "",
          estimated_tokens |-> Max(1, message.n \div 4),
          length |-> message.n]

Invalid(error) ==
    [raised |-> FALSE, valid |-> FALSE, error |-> error,
     estimated_tokens |-> 0, length |-> 0]

ValidateRaised ==
    [raised |-> TRUE, valid |-> FALSE, error |-> "",
     estimated_tokens |-> 0, length |-> 0]

validate_input(message) ==
    IF Falsy(message)
    THEN Invalid("Message cannot be empty")
    ELSE IF ~HasLen(message)
    THEN ValidateRaised
    ELSE IF PyLen(message) > MaxMessageLength
    THEN Invalid("Message too long (max 2000 characters)")
    ELSE IF message.t # "str"
    THEN ValidateRaised
    ELSE [raised |-> FALSE, valid |-> TRUE, error |-> "",
          estimated_tokens |-> estimate_tokens(message),
          length |-> PyLen(message)]

(***************************************************************************)
(* State                                                                   *)
(***************************************************************************)
VARIABLES
    now,                  \* the value time.time() returns
    _conversation_cache,  \* conversation_manager._conversation_cache
    _buckets,             \* rate_limiter._buckets
    pc,                   \* lambda_handler: "idle", or "invoking" while it
                          \* waits in bedrock.invoke_model
    event,                \* the event of the request in hand, or of the last
    messages,             \* the "messages" of the payload sent to the model
    response,             \* what the last lambda_handler call returned
    call,                 \* the last operation run, its arguments and value
    allowed_log,          \* per identifier, the clock values of the
                          \* is_allowed calls made directly that returned True
    invoke_log,           \* per identifier, the clock values at which
                          \* lambda_handler called bedrock.invoke_model
    threads,              \* per thread of concurrent lambda_handler calls,
                          \* its position and its local variables
    direct                \* the pure function called directly, its argument
                          \* and its value

vars == <<now, _conversation_cache, _buckets, pc, event, messages, response,
          call, allowed_log, invoke_log, threads, direct>>

(***************************************************************************)
(* Inputs                                                                  *)
(***************************************************************************)
Short == PyStr(<<"hi">>, 2)

Longest == PyStr(<<"a">>, MaxMessageLength)

TooLong == PyStr(<<"a">>, MaxMessageLength + 1)

Reply == PyStr(<<"reply">>, 9)

MakeEvent(rc, identity, ip, headers, ua, body, message) ==
    [requestContext |-> rc, identity |-> identity, sourceIp |-> ip,
     headers |-> headers, userAgent |-> ua, body |-> body,
     message |-> message]

\* A request from 10.0.0.1 with a User-Agent, and one whose requestContext
\* is missing.
FromClient(body, message) ==
    MakeEvent("obj", "obj", Val(<<"10.0.0.1">>), "obj", Val(<<"curl">>),
              body, message)

Anonymous(body, message) ==
    MakeEvent("absent", "absent", Absent, "obj", Val(<<"curl">>),
              body, message)

NoEvent == MakeEvent("absent", "absent", Absent, "absent", Absent, "absent",
                     Absent)

\* Every shape of body the handler tells apart.
BodyShapes ==
    {<<"object", Val(Short)>>, <<"object", Val(Longest)>>,
     <<"object", Val(TooLong)>>, <<"object", Val(PyStr(<<>>, 0))>>,
     <<"object", Absent>>, <<"object", Null>>,
     <<"object", Val(PyInt(5))>>, <<"object", Val(PyInt(0))>>,
     <<"object", Val(PyList(1))>>,
     <<"absent", Absent>>, <<"null", Absent>>, <<"invalid", Absent>>,
     <<"nonobject", Absent>>}

AllEvents ==
    {FromClient(b[1], b[2]) : b \in BodyShapes}
    \cup {Anonymous(b[1], b[2]) : b \in BodyShapes}
    \cup {MakeEvent("null", "absent", Absent, "obj", Val(<<"curl">>),
                    "object", Val(Short)),
          MakeEvent("obj", "null", Absent, "obj", Val(<<"curl">>),
                    "object", Val(Short)),
          MakeEvent("obj", "obj", Val(<<"10.0.0.1">>), "null", Absent,
                    "object", Val(Short))}

\* The requests Spec serves: from the client, a short message, one too
\* long, an empty one, none, and a body that is no JSON; from the anonymous
\* client a short message; and a request whose requestContext is null.
Events ==
    {FromClient("object", Val(Short)),
     FromClient("object", Val(TooLong)), FromClient("object", Val(PyStr(<<>>, 0))),
     FromClient("object", Absent), FromClient("invalid", Absent),
     Anonymous("object", Val(Short)),
     MakeEvent("null", "absent", Absent, "obj", Val(<<"curl">>),
               "object", Val(Short))}

\* The identifiers the two objects are called with.
Ids == {generate_conversation_id(e) : e \in {e \in Events : ~GenerateIdRaises(e)}}

NoId == md5(<<>>)

\* What the remote model call can do: return a reply, raise ClientError,
\* time out (botocore's ReadTimeoutError is no ClientError), or return a
\* body the handler cannot take a reply from (KeyError, IndexError, ...).
Outcomes == {"reply", "ClientError", "timeout", "malformed"}

(***************************************************************************)
(* Responses and the record of the last operation                          *)
(***************************************************************************)
NoMessage == ChatMessage("", PyNone, 0, 0)

MakeResponse(kind, statusCode, error, reply, id, input, output) ==
    [kind |-> kind, statusCode |-> statusCode, error |-> error,
     reply |-> reply, conversation_id |-> id,
     input_tokens |-> input, output_tokens |-> output]

NoResponse == MakeResponse("none", 0, "", PyNone, NoId, 0, 0)

\* generate_conversation_id runs before the try: what it raises leaves
\* lambda_handler as an exception.
Raised == MakeResponse("exception", 0, "", PyNone, NoId, 0, 0)

ErrorResponse(statusCode, error) ==
    MakeResponse("response", statusCode, error, PyNone, NoId, 0, 0)

RateLimited ==
    ErrorResponse(429, "Rate limit exceeded. Please wait before sending another message.")

ServiceUnavailable == ErrorResponse(500, "Service temporarily unavailable")

InternalError == ErrorResponse(500, "Internal server error")

\* The last operation: its name, the identifier and the message it was
\* called with, the list it found under that identifier (`before`), and
\* what it returned (`allowed` of is_allowed, also when lambda_handler
\* called it; `history` of get_history).
Call(op, id, message, before, allowed, history) ==
    [op |-> op, id |-> id, message |-> message, before |-> before,
     allowed |-> allowed, history |-> history]

\* The same for the return of bedrock.invoke_model, with what the call did.
Returned(id, outcome) ==
    [op |-> "invoke_model", id |-> id, message |-> NoMessage,
     before |-> <<>>, allowed |-> TRUE, history |-> <<>>,
     outcome |-> outcome]

\* dict.get(key, []) on a dict of lists.
Stored(dict, key) == IF key \in DOMAIN dict THEN dict[key] ELSE <<>>

\* {}: the dict with no key.
EmptyDict == [k \in {} |-> <<>>]

\* A log with clock value t added to the entries of identifier id.
Logged(log, id, t) ==
    IF id \in DOMAIN log
    THEN [log EXCEPT ![id] = Append(@, t)]
    ELSE log @@ (id :> <<t>>)

\* The threads that run lambda_handler at the same time.
Threads == {"t1", "t2"}

\* A thread between two requests: its position, and the locals of is_allowed
\* (current_time, bucket), of lambda_handler (messages, the response
\* returned) and of add_message (message; `then` is where its caller goes
\* on), and the number of requests it has begun.
NoThread ==
    [pc |-> "idle", current_time |-> 0, bucket |-> <<>>, messages |-> <<>>,
     message |-> NoMessage, then |-> "idle", response |-> NoResponse,
     served |-> 0]

\* No pure function has been called directly.
NoDirect == [op |-> "none", arg |-> PyNone, ret |-> PyNone]

\* The module as loaded (lines 111-116): the objects are constructed, no
\* request has arrived.
Constructed ==
    /\ now = 0
    /\ _conversation_cache = EmptyDict
    /\ _buckets = EmptyDict
    /\ pc = "idle"
    /\ event = NoEvent
    /\ messages = <<>>
    /\ response = NoResponse
    /\ call = Call("init", NoId, NoMessage, <<>>, FALSE, <<>>)
    /\ allowed_log = EmptyDict
    /\ invoke_log = EmptyDict
    /\ threads = [t \in Threads |-> NoThread]

Init ==
    /\ Constructed
    /\ direct = NoDirect

\* time.time() moves on, up to the horizon.
Advance(horizon) ==
    /\ now < horizon
    /\ now' = now + 1
    /\ call' = Call("tick", NoId, NoMessage, <<>>, FALSE, <<>>)
    /\ UNCHANGED <<_conversation_cache, _buckets, pc, event, messages,
                   response, allowed_log, invoke_log, threads, direct>>

Tick == Advance(MaxTime)

HandlerTick == Advance(MaxHandlerTime)

(***************************************************************************)
(* The objects called directly, one call at a time.                        *)
(***************************************************************************)
\* The messages handed to add_message.
Messages ==
    {ChatMessage("user", Short, 0, estimate_tokens(Short)),
     ChatMessage("assistant", Reply, 1, estimate_tokens(Reply)),
     ChatMessage("user", Longest, 2, estimate_tokens(Longest))}

CallAddMessage ==
    \E id \in Ids, message \in Messages :
        /\ _conversation_cache' = add_message(_conversation_cache, id, message)
        /\ call' = Call("add_message", id, message,
                        Stored(_conversation_cache, id), FALSE, <<>>)
        /\ UNCHANGED <<now, _buckets, pc, event, messages, response,
                       allowed_log, invoke_log, threads, direct>>

CallGetHistory ==
    \E id \in Ids \cup {NoId} :
        /\ call' = Call("get_history", id, NoMessage,
                        Stored(_conversation_cache, id), FALSE,
                        get_history(_conversation_cache, id))
        /\ _conversation_cache' = get_history_store(_conversation_cache, id)
        /\ UNCHANGED <<now, _buckets, pc, event, messages, response,
                       allowed_log, invoke_log, threads, direct>>

CallIsAllowed ==
    \E id \in Ids :
        LET r == is_allowed(_buckets, id, now) IN
        /\ _buckets' = r.buckets
        /\ call' = Call("is_allowed", id, NoMessage, Stored(_buckets, id),
                        r.allowed, <<>>)
        /\ allowed_log' =
              LET log == IF id \in DOMAIN allowed_log
                         THEN allowed_log
                         ELSE allowed_log @@ (id :> <<>>)
              IN  IF r.allowed
                  THEN [log EXCEPT ![id] = Append(@, now)]
                  ELSE log
        /\ UNCHANGED <<now, _conversation_cache, pc, event, messages,
                       response, invoke_log, threads, direct>>

NextStore == CallAddMessage \/ CallGetHistory

SpecStore == Init /\ [][NextStore]_vars

NextLimiter == CallIsAllowed \/ Tick

SpecLimiter == Init /\ [][NextLimiter]_vars

(***************************************************************************)
(* lambda_handler, one request at a time.                                  *)
(***************************************************************************)
UserTurn(text) == [role |-> "user", content |-> text]

\* Parsing before the rate check: a denied request with a bad body or a bad
\* message is answered for the body, not for the rate.
Checkpoint_ParseFirst(e, allowed) ==
    IF ParseRaises(e) \/ validate_input(user_input(e)).raised
    THEN "error"
    ELSE IF ~validate_input(user_input(e)).valid
    THEN "invalid"
    ELSE IF ~allowed THEN "rate_limited" ELSE "invoke"

\* The result of is_allowed dropped: a denied request goes on to validation
\* and to the model like an admitted one.
Checkpoint_RateIgnored(e, allowed) ==
    IF ParseRaises(e) \/ validate_input(user_input(e)).raised
    THEN "error"
    ELSE IF ~validate_input(user_input(e)).valid
    THEN "invalid"
    ELSE "invoke"

\* Where the first part of lambda_handler ends for event e, is_allowed
\* having returned `allowed`: the return of the 429, the except clause
\* (json.loads, body.get or validate_input raised), the return of the 400,
\* or the call of the model.
Checkpoint(e, allowed) ==
    IF ~allowed
    THEN "rate_limited"
    ELSE IF ParseRaises(e) \/ validate_input(user_input(e)).raised
    THEN "error"
    ELSE IF ~validate_input(user_input(e)).valid
    THEN "invalid"
    ELSE "invoke"

\* The prompt without the history.
Prompt_NoHistory(history, text) == <<UserTurn(text)>>

\* The user's turn put in front of the history instead of behind it.
Prompt_UserFirst(history, text) == <<UserTurn(text)>> \o history

\* messages = history + [{"role": "user", "content": user_input}]
Prompt(history, text) == history \o <<UserTurn(text)>>

\* The user's turn stored only with the reply, after the model has answered.
RecordUserTurn_Deferred(cache, conversation_id, text, timestamp) == cache

\* The user's turn stored twice over.
RecordUserTurn_Twice(cache, conversation_id, text, timestamp) ==
    add_message(add_message(cache, conversation_id,
                            ChatMessage("user", text, timestamp, 1)),
                conversation_id, ChatMessage("user", text, timestamp, 1))

\* user_message = ChatMessage(...); conversation_manager.add_message(...)
RecordUserTurn(cache, conversation_id, text, timestamp) ==
    add_message(cache, conversation_id,
                ChatMessage("user", text, timestamp,
                            validate_input(text).estimated_tokens))

\* The output estimate taken from the message instead of the reply.
SuccessResponse_OutputFromInput(reply, conversation_id, text) ==
    MakeResponse("response", 200, "", reply, conversation_id,
                 validate_input(text).estimated_tokens,
                 validate_input(text).estimated_tokens)

\* The 200: the reply and the metadata, with the estimate validate_input
\* made of the message and the estimate of the reply.
SuccessResponse(reply, conversation_id, text) ==
    MakeResponse("response", 200, "", reply, conversation_id,
                 validate_input(text).estimated_tokens,
                 estimate_tokens(reply))

\* The 500 of the two except clauses: ClientError, and anything else.  They
\* log and return, and leave the store and the buckets alone.
FailureResponse(outcome) ==
    IF outcome = "ClientError" THEN ServiceUnavailable ELSE InternalError

\* lambda_handler from its first line to the first of: the exception of
\* generate_conversation_id, the 429, the 500 of a body that does not parse
\* or a message validate_input raises on, the 400, or the call of
\* bedrock.invoke_model, where it waits.  Serve is the handler for an event
\* of `events`; with `logged` the calls of the model are entered in
\* invoke_log.
Serve(events, logged) ==
    \E e \in events :
        /\ pc = "idle"
        /\ event' = e
        /\ UNCHANGED <<now, allowed_log, threads, direct>>
        /\ IF GenerateIdRaises(e)
           THEN /\ response' = Raised
                /\ call' = Call("lambda_handler", NoId, NoMessage, <<>>,
                                FALSE, <<>>)
                /\ messages' = <<>>
                /\ UNCHANGED <<_conversation_cache, _buckets, pc,
                               invoke_log>>
           ELSE
             LET conversation_id   == generate_conversation_id(e)
                 rate              == is_allowed(_buckets, conversation_id, now)
                 validation_result == validate_input(user_input(e))
                 history           == get_history(_conversation_cache,
                                                  conversation_id)
                 checkpoint        == Checkpoint(e, rate.allowed)
             IN
             /\ _buckets' = rate.buckets
             /\ call' = Call("lambda_handler", conversation_id, NoMessage,
                             Stored(_buckets, conversation_id), rate.allowed,
                             <<>>)
             /\ CASE checkpoint = "rate_limited" ->
                       /\ response' = RateLimited
                       /\ messages' = <<>>
                       /\ UNCHANGED <<_conversation_cache, pc, invoke_log>>
                  [] checkpoint = "error" ->
                       /\ response' = InternalError
                       /\ messages' = <<>>
                       /\ UNCHANGED <<_conversation_cache, pc, invoke_log>>
                  [] checkpoint = "invalid" ->
                       /\ response' = ErrorResponse(400, validation_result.error)
                       /\ messages' = <<>>
                       /\ UNCHANGED <<_conversation_cache, pc, invoke_log>>
                  [] OTHER ->
                       /\ messages' = Prompt(history, user_input(e))
                       /\ _conversation_cache' =
                              RecordUserTurn(_conversation_cache,
                                             conversation_id, user_input(e),
                                             now)
                       /\ pc' = "invoking"
                       /\ response' = NoResponse
                       /\ invoke_log' =
                              IF logged
                              THEN Logged(invoke_log, conversation_id, now)
                              ELSE invoke_log

lambda_handler == Serve(Events, FALSE)

\* bedrock.invoke_model returns or raises, and lambda_handler runs to its
\* return: the 200 after the assistant message is stored, or a 500.
invoke_model ==
    \E outcome \in Outcomes :
        LET conversation_id == generate_conversation_id(event)
            reply           == Reply
            assistant_message ==
                ChatMessage("assistant", reply, now, estimate_tokens(reply))
        IN
        /\ pc = "invoking"
        /\ pc' = "idle"
        /\ messages' = <<>>
        /\ call' = Returned(conversation_id, outcome)
        /\ UNCHANGED <<now, _buckets, event, allowed_log, invoke_log,
                       threads, direct>>
        /\ IF outcome = "reply"
           THEN /\ _conversation_cache' =
                       add_message(_conversation_cache, conversation_id,
                                   assistant_message)
                /\ response' = SuccessResponse(reply, conversation_id,
                                               user_input(event))
           ELSE /\ response' = FailureResponse(outcome)
                /\ UNCHANGED _conversation_cache

Next == lambda_handler \/ invoke_model \/ HandlerTick

Spec == Init /\ [][Next]_vars

\* The same handler with the log of its model calls kept, serving the
\* requests that differ in how far they get: admitted and valid, too long,
\* and with a body that is no JSON.
LoggedEvents ==
    {FromClient("object", Val(Short)), FromClient("object", Val(TooLong)),
     FromClient("invalid", Absent), Anonymous("object", Val(Short))}

lambda_handler_logged == Serve(LoggedEvents, TRUE)

NextLogged == lambda_handler_logged \/ invoke_model \/ HandlerTick

SpecLogged == Init /\ [][NextLogged]_vars

(***************************************************************************)
(* The conversation store, called directly (SpecStore)                     *)
(***************************************************************************)
\* C1: after any sequence of add_message calls, on any sessions and with any
\* messages, every session's stored history, and so what get_history
\* returns for it, has at most max_history messages.
C1_HistoryBounded ==
    \A id \in DOMAIN _conversation_cache :
        /\ Len(_conversation_cache[id]) <= max_history
        /\ Len(get_history(_conversation_cache, id)) <= max_history

\* add_message has just been called on a session that held max_history
\* messages already, and the session still holds max_history.
C1_Witness ==
    /\ call.op = "add_message"
    /\ Len(call.before) = max_history
    /\ Len(_conversation_cache[call.id]) = max_history

\* C2: add_message(session, m) on a history h of max_history messages leaves
\* h without its first message, followed by m; on a shorter h it leaves h
\* followed by m.  get_history leaves the store as it is, and with it the
\* message that goes next.
C2_OldestFirst ==
    [][/\ call'.op = "add_message" =>
            LET h == Stored(_conversation_cache, call'.id)
            IN  _conversation_cache'[call'.id] =
                    IF Len(h) = max_history
                    THEN SubSeq(h, 2, Len(h)) \o <<call'.message>>
                    ELSE h \o <<call'.message>>
       /\ call'.op = "get_history" =>
            _conversation_cache' = _conversation_cache]_vars

\* add_message has just evicted: the session held max_history messages, the
\* oldest of them is gone and the second oldest is now the first.
C2_Witness ==
    /\ call.op = "add_message"
    /\ Len(call.before) = max_history
    /\ call.before[1] # call.before[2]
    /\ _conversation_cache[call.id][1] = call.before[2]
    /\ _conversation_cache[call.id][max_history] = call.message
    /\ call.message # call.before[max_history]

(***************************************************************************)
(* The rate limiter, called directly (SpecLimiter)                         *)
(***************************************************************************)
\* The calls of is_allowed(id) that returned True at a clock value in the
\* window [start, start + window_seconds).
AllowedInWindow(id, start) ==
    {i \in 1..Len(allowed_log[id]) :
        /\ start <= allowed_log[id][i]
        /\ allowed_log[id][i] < start + window_seconds}

C4_BucketInvariant ==
    call.op = "is_allowed" =>
        LET bucket == _buckets[call.id]
        IN  /\ Len(bucket) <= max_requests
            /\ \A i \in 1..Len(bucket) : now - bucket[i] < window_seconds
            /\ \A j \in 1..Len(call.before) :
                  now - call.before[j] = window_seconds =>
                      \A i \in 1..Len(bucket) : bucket[i] # call.before[j]

\* is_allowed has just dropped a timestamp aged exactly window_seconds.
C4_Witness ==
    /\ call.op = "is_allowed"
    /\ \E j \in 1..Len(call.before) : now - call.before[j] = window_seconds
    /\ Len(_buckets[call.id]) < Len(call.before) + 1

\* C5: a call of is_allowed(id) that returns False leaves the bucket of id
\* as it was: the timestamps it held, none dropped but the expired ones, and
\* the clock value of the call is not added.
C5_DeniedKeepsBucket ==
    (call.op = "is_allowed" /\ ~call.allowed) =>
        /\ _buckets[call.id] =
              SelectSeq(call.before, LAMBDA t : now - t < window_seconds)
        /\ _buckets[call.id] = call.before
        /\ Len(_buckets[call.id]) = max_requests

\* A call has just been denied.
C5_Witness ==
    /\ call.op = "is_allowed"
    /\ ~call.allowed
    /\ Len(call.before) = max_requests

(***************************************************************************)
(* lambda_handler, one request at a time (Spec)                            *)
(***************************************************************************)
\* The session of the request in hand, or of the last one.
Session == generate_conversation_id(event)

\* The step is the first part of lambda_handler, past
\* generate_conversation_id.
HandlerStep == call'.op = "lambda_handler" /\ ~GenerateIdRaises(event')

\* The message of a request is a str that is empty (or missing, which reads
\* as the empty str) or longer than 2000 characters.
EmptyMessage(e) ==
    ~ParseRaises(e) /\ user_input(e).t = "str" /\ user_input(e).n = 0

OversizedMessage(e) ==
    ~ParseRaises(e) /\ user_input(e).t = "str" /\ user_input(e).n > 2000

ValidMessage(e) ==
    /\ ~ParseRaises(e)
    /\ user_input(e).t = "str"
    /\ user_input(e).n \in 1..2000

\* The {role, content} pairs of a stored list.
Turns(history) ==
    [i \in 1..Len(history) |->
        [role |-> history[i].role, content |-> history[i].content]]

\* C6: when is_allowed denies the request, lambda_handler returns the 429
\* with its error and changes nothing else, whatever the body: the model is
\* not called, no history changes, and the bucket stays as it was, with
\* max_requests timestamps.
C6_RateLimited ==
    [][(HandlerStep /\ ~call'.allowed) =>
          /\ response'.kind = "response"
          /\ response'.statusCode = 429
          /\ response'.error # ""
          /\ pc' = "idle"
          /\ messages' = <<>>
          /\ _conversation_cache' = _conversation_cache
          /\ _buckets' = _buckets
          /\ Len(_buckets'[call'.id]) = max_requests]_vars

\* A request whose body is no JSON has just been denied, while the store
\* holds a history.
C6_Witness ==
    /\ call.op = "lambda_handler"
    /\ ~GenerateIdRaises(event)
    /\ ~call.allowed
    /\ event.body = "invalid"
    /\ response.statusCode = 429
    /\ Session \in DOMAIN _conversation_cache

\* C7: an admitted request whose message is empty, missing or longer than
\* 2000 characters gets the 400 with the error of that failure; the model
\* is not called and no history changes; the timestamp is_allowed appended
\* for it stays in the bucket.
C7_InvalidMessage ==
    [][(HandlerStep /\ call'.allowed
            /\ (EmptyMessage(event') \/ OversizedMessage(event'))) =>
          /\ response'.kind = "response"
          /\ response'.statusCode = 400
          /\ EmptyMessage(event') =>
                response'.error = "Message cannot be empty"
          /\ OversizedMessage(event') =>
                response'.error = "Message too long (max 2000 characters)"
          /\ pc' = "idle"
          /\ messages' = <<>>
          /\ _conversation_cache' = _conversation_cache
          /\ _buckets'[call'.id] =
                SelectSeq(call'.before, LAMBDA t : now - t < window_seconds)
                    \o <<now>>]_vars

\* A message too long has just been answered with the 400, it has taken
\* the last slot of its bucket, and the session has a history.
C7_Witness ==
    /\ call.op = "lambda_handler"
    /\ ~GenerateIdRaises(event)
    /\ call.allowed
    /\ OversizedMessage(event)
    /\ response.statusCode = 400
    /\ Len(_buckets[Session]) = max_requests
    /\ Session \in DOMAIN _conversation_cache

\* C8: when the model call fails (ClientError, a timeout, a response with
\* no reply in it), lambda_handler returns a 500 with one of the two fixed
\* errors; the user's message of the request is the newest message of the
\* session, no assistant message is stored for the request, and the
\* timestamp of the request stays in the bucket.
C8_ModelFailure ==
    [][(call'.op = "invoke_model" /\ call'.outcome # "reply") =>
          /\ response'.kind = "response"
          /\ response'.statusCode = 500
          /\ response'.error \in {"Service temporarily unavailable",
                                  "Internal server error"}
          /\ response'.reply = PyNone
          /\ pc' = "idle"
          /\ _conversation_cache' = _conversation_cache
          /\ LET history == Stored(_conversation_cache', Session)
                 newest  == history[Len(history)]
             IN  /\ Len(history) >= 1
                 /\ newest.role = "user"
                 /\ newest.content = user_input(event)
                 /\ \E i \in 1..Len(_buckets'[Session]) :
                       _buckets'[Session][i] = newest.timestamp
          /\ _buckets' = _buckets]_vars

\* The model call has just timed out on a session that had a history.
C8_Witness ==
    /\ call.op = "invoke_model"
    /\ call.outcome = "timeout"
    /\ response.statusCode = 500
    /\ Len(_conversation_cache[Session]) = max_history
    /\ _conversation_cache[Session][Len(_conversation_cache[Session])].role
          = "user"

\* C9: an admitted request with a valid message reaches the model call with
\* its user message stored as the newest of the session, and the prompt is
\* the session's history as it was before that, roles and contents in
\* order, followed by the user's turn.
C9_PromptAndOrder ==
    [][(HandlerStep /\ call'.allowed /\ ValidMessage(event')) =>
          LET prior == Stored(_conversation_cache, call'.id)
              after == Stored(_conversation_cache', call'.id)
          IN  /\ pc' = "invoking"
              /\ messages' =
                    Turns(prior) \o
                        <<[role |-> "user", content |-> user_input(event')]>>
              /\ Len(after) >= 1
              /\ after[Len(after)].role = "user"
              /\ after[Len(after)].content = user_input(event')
              /\ Len(after) = (IF Len(prior) < max_history
                               THEN Len(prior) + 1 ELSE max_history)
              /\ \A i \in 1..(Len(after) - 1) :
                    after[i] = prior[i + Len(prior) + 1 - Len(after)]]_vars

\* The handler waits in the model call with a prompt that carries earlier
\* turns before the user's.
C9_Witness ==
    /\ pc = "invoking"
    /\ Len(messages) >= 3
    /\ messages[Len(messages)] =
          [role |-> "user", content |-> user_input(event)]
    /\ messages[1].role = "user"
    /\ messages[2].role = "assistant"

\* C10: when the model call returns a reply, the reply is stored as an
\* assistant message right after the user's message of the request, and
\* the 200 carries the reply, the session id and the estimates
\* max(1, len // 4) of the message and of the reply.  On a new session the
\* history has one message when the model is called and two after the
\* reply.
C10_Success ==
    [][/\ (call'.op = "invoke_model" /\ call'.outcome = "reply") =>
            LET prior == _conversation_cache[Session]
                after == _conversation_cache'[Session]
                reply == response'.reply
            IN  /\ response'.kind = "response"
                /\ response'.statusCode = 200
                /\ reply.t = "str"
                /\ response'.conversation_id = Session
                /\ response'.input_tokens =
                      Max(1, user_input(event).n \div 4)
                /\ response'.output_tokens = Max(1, reply.n \div 4)
                /\ Len(after) >= 2
                /\ after[Len(after)].role = "assistant"
                /\ after[Len(after)].content = reply
                /\ after[Len(after) - 1] = prior[Len(prior)]
                /\ after[Len(after) - 1].role = "user"
                /\ after[Len(after) - 1].content = user_input(event)
                /\ Len(prior) = 1 => Len(after) = 2
       /\ (HandlerStep /\ pc' = "invoking"
              /\ call'.id \notin DOMAIN _conversation_cache) =>
            Len(_conversation_cache'[call'.id]) = 1]_vars

\* A request has just been answered with the 200, and the session holds the
\* user's message and the reply.
C10_Witness ==
    /\ call.op = "invoke_model"
    /\ call.outcome = "reply"
    /\ response.statusCode = 200
    /\ response.input_tokens # response.output_tokens
    /\ Len(_conversation_cache[Session]) = 2
    /\ _conversation_cache[Session][1].role = "user"
    /\ _conversation_cache[Session][2].role = "assistant"

(***************************************************************************)
(* What leaves lambda_handler (Spec)                                       *)
(***************************************************************************)
\* lambda_handler has returned or raised: the last step was its return
\* before the model call, or the return after it.
Finished ==
    /\ pc = "idle"
    /\ call.op \in {"lambda_handler", "invoke_model"}

\* C11: every lambda_handler call ends with a response whose status code is
\* 200, 400, 429 or 500; nothing it runs leaves it as an exception, and the
\* error of every 500 is one of the two fixed strings.
C11_AlwaysResponds ==
    Finished =>
        /\ response.kind = "response"
        /\ response.statusCode \in {200, 400, 429, 500}
        /\ response.statusCode = 500 =>
               response.error \in {"Service temporarily unavailable",
                                   "Internal server error"}

(***************************************************************************)
(* generate_conversation_id, called directly (SpecId)                      *)
(***************************************************************************)
\* The source addresses and user agents of the events: none, None, two
\* values and the empty str.
SourceIps ==
    {Absent, Null, Val(<<"10.0.0.1">>), Val(<<"10.0.0.2">>), Val(<<>>)}

UserAgents == {Absent, Null, Val(<<"curl">>), Val(<<"Mozilla">>), Val(<<>>)}

\* Every shape of request metadata: requestContext, identity and headers
\* missing, None or a dict, and under a dict every source address and user
\* agent.
MetaEvents ==
    {MakeEvent(m[1], m[2], m[3], h[1], h[2], "object", Val(Short)) :
        m \in {<<"absent", "absent", Absent>>, <<"null", "absent", Absent>>,
               <<"obj", "absent", Absent>>, <<"obj", "null", Absent>>}
              \cup {<<"obj", "obj", ip>> : ip \in SourceIps},
        h \in {<<"absent", Absent>>, <<"null", Absent>>}
              \cup {<<"obj", ua>> : ua \in UserAgents}}

\* The argument of a direct call is drawn before the call.
InitId ==
    /\ Constructed
    /\ direct \in {[op |-> "none", arg |-> e, ret |-> PyNone] :
                      e \in MetaEvents}

\* generate_conversation_id(event): the identifier, or the exception raised.
CallGenerateId ==
    /\ direct' =
          [op  |-> "generate_conversation_id",
           arg |-> direct.arg,
           ret |-> [raised |-> GenerateIdRaises(direct.arg),
                    value  |-> IF GenerateIdRaises(direct.arg)
                               THEN NoId
                               ELSE generate_conversation_id(direct.arg)]]
    /\ UNCHANGED <<now, _conversation_cache, _buckets, pc, event, messages,
                   response, call, allowed_log, invoke_log, threads>>

NextId == CallGenerateId

SpecId == InitId /\ [][NextId]_vars

\* The source address and the user agent of an event as the claim reads
\* them: 'unknown' when the key or its parent object is absent or the parent
\* is null.
AddressOf(e) ==
    IF e.requestContext = "obj" /\ e.identity = "obj" /\ e.sourceIp.k = "val"
    THEN e.sourceIp.v
    ELSE <<"unknown">>

AgentOf(e) ==
    IF e.headers = "obj" /\ e.userAgent.k = "val"
    THEN e.userAgent.v
    ELSE <<"unknown">>

\* A key that is present and holds None is no case of the claim.
NullKey(e) ==
    \/ e.requestContext = "obj" /\ e.identity = "obj" /\ e.sourceIp.k = "null"
    \/ e.headers = "obj" /\ e.userAgent.k = "null"

\* C12: generate_conversation_id returns an identifier for every event and
\* never raises; a source address or user agent that is missing (absent key,
\* absent or null parent object) counts as 'unknown'; two events with the
\* same source address and user agent get the same identifier.
C12_NeverFails ==
    direct.op = "generate_conversation_id" =>
        /\ ~direct.ret.raised
        /\ ~NullKey(direct.arg) =>
               direct.ret.value =
                   md5(AddressOf(direct.arg) \o <<":">> \o AgentOf(direct.arg))
        /\ \A e \in MetaEvents :
               /\ ~GenerateIdRaises(e)
               /\ ~NullKey(e) /\ ~NullKey(direct.arg)
               /\ AddressOf(e) = AddressOf(direct.arg)
               /\ AgentOf(e) = AgentOf(direct.arg)
               => generate_conversation_id(e) = direct.ret.value

(***************************************************************************)
(* lambda_handler on several threads (SpecThreads).  The module keeps      *)
(* rate_limiter and conversation_manager as globals and takes no lock, so  *)
(* two invocations in one process share both dicts, and a thread can be    *)
(* switched between any two statements.  Each thread runs the handler for  *)
(* a valid message of the same client, and stops at the four statements    *)
(* of is_allowed, at get_history, at the three statements of add_message,  *)
(* and at the return of the model call.                                    *)
(***************************************************************************)
\* The requests one thread serves.
MaxServed == 2

\* The message of a thread's requests, and the reply the model gives to it.
ThreadText(t) == IF t = "t1" THEN Short ELSE PyStr(<<"yo">>, 2)

ReplyTo(text) == PyStr(<<"reply to">> \o text.s, 9)

\* All threads serve the same client.
ThreadId == generate_conversation_id(FromClient("object", Val(Short)))

\* Thread t goes on as record r.
Becomes(t, r) == threads' = [threads EXCEPT ![t] = r]

\* Lines 95-98: current_time = time.time(), the bucket created when
\* missing, and bucket = self._buckets[identifier] read.
T_ReadBucket ==
    \E t \in Threads :
        LET created == IF ThreadId \notin DOMAIN _buckets
                       THEN _buckets @@ (ThreadId :> <<>>)
                       ELSE _buckets
        IN
        /\ threads[t].pc = "idle"
        /\ threads[t].served < MaxServed
        /\ _buckets' = created
        /\ Becomes(t, [NoThread EXCEPT !.pc = "write_pruned",
                                       !.current_time = now,
                                       !.bucket = created[ThreadId],
                                       !.served = threads[t].served + 1])
        /\ UNCHANGED <<now, _conversation_cache, pc, event, messages,
                       response, call, allowed_log, invoke_log, direct>>

\* Line 99: self._buckets[identifier] = [the timestamps of bucket still in
\* the window].
T_WritePruned ==
    \E t \in Threads :
        /\ threads[t].pc = "write_pruned"
        /\ _buckets' = [_buckets EXCEPT ![ThreadId] =
                           Pruned(threads[t].bucket, threads[t].current_time)]
        /\ Becomes(t, [threads[t] EXCEPT !.pc = "test_limit"])
        /\ UNCHANGED <<now, _conversation_cache, pc, event, messages,
                       response, call, allowed_log, invoke_log, direct>>

\* Line 105: if len(self._buckets[identifier]) < self.max_requests; else
\* is_allowed returns False and lambda_handler the 429.
T_TestLimit ==
    \E t \in Threads :
        /\ threads[t].pc = "test_limit"
        /\ IF Len(_buckets[ThreadId]) < max_requests
           THEN Becomes(t, [threads[t] EXCEPT !.pc = "append_time"])
           ELSE Becomes(t, [threads[t] EXCEPT !.pc = "idle",
                                              !.response = RateLimited])
        /\ UNCHANGED <<now, _conversation_cache, _buckets, pc, event,
                       messages, response, call, allowed_log, invoke_log,
                       direct>>

\* Lines 106-107: self._buckets[identifier].append(current_time) and
\* return True; allowed_log keeps the clock value of the admitted call.
T_AppendTime ==
    \E t \in Threads :
        /\ threads[t].pc = "append_time"
        /\ _buckets' = [_buckets EXCEPT ![ThreadId] =
                           Append(@, threads[t].current_time)]
        /\ allowed_log' = Logged(allowed_log, ThreadId, threads[t].current_time)
        /\ Becomes(t, [threads[t] EXCEPT !.pc = "get_history"])
        /\ UNCHANGED <<now, _conversation_cache, pc, event, messages,
                       response, call, invoke_log, direct>>

\* Lines 180-202 up to the call of add_message: the body parsed, the message
\* validated, the history read and the prompt built, the user message made.
T_LoadHistory ==
    \E t \in Threads :
        /\ threads[t].pc = "get_history"
        /\ Becomes(t, [threads[t] EXCEPT
              !.pc = "append_message",
              !.messages = Prompt(get_history(_conversation_cache, ThreadId),
                                  ThreadText(t)),
              !.message = ChatMessage("user", ThreadText(t), now,
                              validate_input(ThreadText(t)).estimated_tokens),
              !.then = "invoke_model"])
        /\ UNCHANGED <<now, _conversation_cache, _buckets, pc, event,
                       messages, response, call, allowed_log, invoke_log,
                       direct>>

\* Lines 39-42: the entry created when missing, and the message appended.
T_AppendMessage ==
    \E t \in Threads :
        LET created == IF ThreadId \notin DOMAIN _conversation_cache
                       THEN _conversation_cache @@ (ThreadId :> <<>>)
                       ELSE _conversation_cache
        IN
        /\ threads[t].pc = "append_message"
        /\ _conversation_cache' =
              [created EXCEPT ![ThreadId] = Append(@, threads[t].message)]
        /\ Becomes(t, [threads[t] EXCEPT !.pc = "test_length"])
        /\ UNCHANGED <<now, _buckets, pc, event, messages, response, call,
                       allowed_log, invoke_log, direct>>

\* Line 44: if len(history) > self.max_history.
T_TestLength ==
    \E t \in Threads :
        /\ threads[t].pc = "test_length"
        /\ IF Len(_conversation_cache[ThreadId]) > max_history
           THEN Becomes(t, [threads[t] EXCEPT !.pc = "pop_oldest"])
           ELSE Becomes(t, [threads[t] EXCEPT !.pc = threads[t].then])
        /\ UNCHANGED <<now, _conversation_cache, _buckets, pc, event,
                       messages, response, call, allowed_log, invoke_log,
                       direct>>

\* Line 45: history.pop(0).
T_PopOldest ==
    \E t \in Threads :
        /\ threads[t].pc = "pop_oldest"
        /\ _conversation_cache' =
              [_conversation_cache EXCEPT ![ThreadId] = Tail(@)]
        /\ Becomes(t, [threads[t] EXCEPT !.pc = threads[t].then])
        /\ UNCHANGED <<now, _buckets, pc, event, messages, response, call,
                       allowed_log, invoke_log, direct>>

\* Lines 205-231 up to the call of add_message: bedrock.invoke_model returns
\* a reply, and the assistant message is made; or it fails, and the except
\* clauses return a 500.
T_ModelReturns ==
    \E t \in Threads, outcome \in Outcomes :
        /\ threads[t].pc = "invoke_model"
        /\ IF outcome = "reply"
           THEN Becomes(t, [threads[t] EXCEPT
                   !.pc = "append_message",
                   !.message = ChatMessage("assistant",
                                   ReplyTo(ThreadText(t)), now,
                                   estimate_tokens(ReplyTo(ThreadText(t)))),
                   !.then = "return"])
           ELSE Becomes(t, [threads[t] EXCEPT
                   !.pc = "idle",
                   !.response = FailureResponse(outcome)])
        /\ UNCHANGED <<now, _conversation_cache, _buckets, pc, event,
                       messages, response, call, allowed_log, invoke_log,
                       direct>>

\* Lines 241-259: the 200.
T_Respond ==
    \E t \in Threads :
        /\ threads[t].pc = "return"
        /\ Becomes(t, [threads[t] EXCEPT
              !.pc = "idle",
              !.response = SuccessResponse(ReplyTo(ThreadText(t)), ThreadId,
                                           ThreadText(t))])
        /\ UNCHANGED <<now, _conversation_cache, _buckets, pc, event,
                       messages, response, call, allowed_log, invoke_log,
                       direct>>

NextThreads ==
    \/ T_ReadBucket \/ T_WritePruned \/ T_TestLimit \/ T_AppendTime
    \/ T_LoadHistory \/ T_AppendMessage \/ T_TestLength \/ T_PopOldest
    \/ T_ModelReturns \/ T_Respond

SpecThreads == Init /\ [][NextThreads]_vars

\* How often clock value t stands in a list of timestamps.
Occurrences(list, t) == Cardinality({i \in 1..Len(list) : list[i] = t})

\* C13: with the statements of is_allowed interleaved among threads that
\* serve one identity, the bucket never holds more than max_requests
\* timestamps, every admitted timestamp still in the window stands in the
\* bucket, and at most max_requests calls within one window return True.
C13_RateCheckSerialized ==
    \A id \in DOMAIN _buckets :
        /\ Len(_buckets[id]) <= max_requests
        /\ id \in DOMAIN allowed_log =>
              /\ \A i \in 1..Len(allowed_log[id]) :
                     InWindow(now, allowed_log[id][i]) =>
                         Occurrences(allowed_log[id], allowed_log[id][i])
                             <= Occurrences(_buckets[id], allowed_log[id][i])
              /\ \A start \in 0..now :
                     Cardinality(AllowedInWindow(id, start)) <= max_requests

\* C14: with the statements of lambda_handler and of add_message
\* interleaved among threads that serve one session, the stored history
\* never holds more than max_history messages, every assistant message
\* stands right behind the user message it answers, and the timestamps
\* never decrease.
C14_HistorySerialized ==
    \A id \in DOMAIN _conversation_cache :
        LET history == _conversation_cache[id] IN
        /\ Len(history) <= max_history
        /\ \A i \in 2..Len(history) :
               /\ history[i - 1].timestamp <= history[i].timestamp
               /\ history[i].role = "assistant" =>
                      /\ history[i - 1].role = "user"
                      /\ history[i].content = ReplyTo(history[i - 1].content)

(***************************************************************************)
(* validate_input and estimate_tokens, called directly (SpecValidate)      *)
(***************************************************************************)
\* What the texts are written with, and the least length of such a text:
\* plain text, and text with each pattern in lower, upper or mixed case, or
\* with a word that is no pattern.
Contents ==
    {<<<<"a">>, 1>>,
     <<<<"a", "ignore previous instructions">>, 29>>,
     <<<<"IGNORE PREVIOUS INSTRUCTIONS", "a">>, 29>>,
     <<<<"System:">>, 7>>,
     <<<<"a", "Assistant:", "a">>, 12>>,
     <<<<"system">>, 6>>}

\* The lengths of the texts: around the steps of the estimate and around
\* the limit of validate_input.
Lengths == {1, 3, 4, 5, 7, 8, 12, 29, 1999, 2000, 2001, 2002, 4000}

\* The messages validate_input is called with: None, the empty str, and the
\* texts.
TestTexts ==
    {PyNone, PyStr(<<>>, 0)}
    \cup UNION {{PyStr(c[1], n) : n \in {k \in Lengths : k >= c[2]}} :
                  c \in Contents}

InitValidate ==
    /\ Constructed
    /\ direct \in {[op |-> "none", arg |-> m, ret |-> PyNone] :
                      m \in TestTexts}

\* validate_input(message): the dict returned, and the warnings logged on
\* the way (none when it returns before the scan).
CallValidate ==
    /\ direct' =
          [op  |-> "validate_input",
           arg |-> direct.arg,
           ret |-> validate_input(direct.arg),
           log |-> IF validate_input(direct.arg).valid
                   THEN Detected(direct.arg)
                   ELSE {}]
    /\ UNCHANGED <<now, _conversation_cache, _buckets, pc, event, messages,
                   response, call, allowed_log, invoke_log, threads>>

\* token_counter.estimate_tokens(text): the estimate, or the TypeError of
\* len(None).
CallEstimate ==
    /\ direct' =
          [op  |-> "estimate_tokens",
           arg |-> direct.arg,
           ret |-> [raised |-> ~HasLen(direct.arg),
                    value  |-> IF HasLen(direct.arg)
                               THEN estimate_tokens(direct.arg)
                               ELSE 0]]
    /\ UNCHANGED <<now, _conversation_cache, _buckets, pc, event, messages,
                   response, call, allowed_log, invoke_log, threads>>

NextValidate == CallValidate \/ CallEstimate

SpecValidate == InitValidate /\ [][NextValidate]_vars

\* C15: validate_input applies its rules in order: an empty or missing
\* message is invalid ("Message cannot be empty"); else a message of more
\* than 2000 characters is invalid ("Message too long ..."); else it is
\* valid with its length and its estimate, 500 for 2000 characters; and the
\* result is that of any other message of the same length, with or without
\* a suspicious phrase.
C15_ValidationRules ==
    direct.op = "validate_input" =>
        LET m == direct.arg
            r == direct.ret
        IN  /\ ~r.raised
            /\ (m.t = "none" \/ m.n = 0) =>
                   ~r.valid /\ r.error = "Message cannot be empty"
            /\ (m.t = "str" /\ m.n > 2000) =>
                   /\ ~r.valid
                   /\ r.error = "Message too long (max 2000 characters)"
            /\ (m.t = "str" /\ m.n >= 1 /\ m.n <= 2000) =>
                   /\ r.valid
                   /\ r.length = m.n
                   /\ r.estimated_tokens = estimate_tokens(m)
                   /\ m.n = 2000 => r.estimated_tokens = 500
            /\ \A other \in TestTexts :
                   (other.t = m.t /\ other.n = m.n) =>
                       validate_input(other) = r

\* A message of 2000 characters with a pattern in it has been validated:
\* the pattern was logged, the message is valid, its estimate 500.
C15_Witness ==
    /\ direct.op = "validate_input"
    /\ direct.arg.n = 2000
    /\ direct.log # {}
    /\ direct.ret.valid
    /\ direct.ret.estimated_tokens = 500

\* C16: estimate_tokens is max(1, floor(len(text) / 4)) for every text: at
\* least 1, 1 for the empty text and for four characters, 500 for 2000
\* characters, and never smaller for a longer text.
C16_TokenEstimate ==
    (direct.op = "estimate_tokens" /\ direct.arg.t = "str") =>
        LET n == direct.arg.n
            v == direct.ret.value
        IN  /\ ~direct.ret.raised
            /\ v \in Nat /\ v >= 1
            /\ n < 4 => v = 1
            /\ n >= 4 => (4 * v <= n /\ n < 4 * (v + 1))
            /\ n = 4 => v = 1
            /\ n = 2000 => v = 500
            /\ \A other \in TestTexts :
                   (other.t = "str" /\ other.n <= n) =>
                       estimate_tokens(other) <= v

\* The estimate of a text of 2000 characters has been taken, and that of
\* the empty text is 1.
C16_Witness ==
    /\ direct.op = "estimate_tokens"
    /\ direct.arg.n = 2000
    /\ direct.ret.value = 500
    /\ estimate_tokens(PyStr(<<>>, 0)) = 1

(***************************************************************************)
(* Sessions side by side (Spec)                                            *)
(***************************************************************************)
\* The keys of the two dicts before and after a step.
Known ==
    DOMAIN _conversation_cache \cup DOMAIN _conversation_cache'
    \cup DOMAIN _buckets \cup DOMAIN _buckets'

\* C17: a call of add_message, of is_allowed or of lambda_handler (either
\* part of it, whatever it returns) for one session leaves every other
\* session's entry in the store and in the buckets as it was: neither
\* created, nor removed, nor changed.
C17_SessionsIndependent ==
    [][call'.op \in {"add_message", "is_allowed", "lambda_handler",
                     "invoke_model"} =>
          \A id \in Known \ {call'.id} :
              /\ id \in DOMAIN _conversation_cache' <=>
                     id \in DOMAIN _conversation_cache
              /\ Stored(_conversation_cache', id) =
                     Stored(_conversation_cache, id)
              /\ id \in DOMAIN _buckets' <=> id \in DOMAIN _buckets
              /\ Stored(_buckets', id) = Stored(_buckets, id)]_vars

\* A request of one session has been answered with the 200 while another
\* session has messages stored and timestamps in its bucket.
C17_Witness ==
    /\ call.op = "invoke_model"
    /\ call.outcome = "reply"
    /\ response.statusCode = 200
    /\ \E id \in DOMAIN _conversation_cache \cap DOMAIN _buckets :
           /\ id # call.id
           /\ Len(_conversation_cache[id]) > 0
           /\ Len(_buckets[id]) > 0

(***************************************************************************)
(* get_history, called directly (SpecStore)                                *)
(***************************************************************************)
\* C18: get_history only reads.  For a session without an entry it returns
\* the empty list and makes no entry; for a session with an entry it
\* returns one {role, content} pair for each stored message, in stored
\* order; either way the store after the call is the store before it.
C18_GetHistoryReadOnly ==
    [][call'.op = "get_history" =>
          LET id == call'.id IN
          /\ _conversation_cache' = _conversation_cache
          /\ DOMAIN _conversation_cache' = DOMAIN _conversation_cache
          /\ id \notin DOMAIN _conversation_cache =>
                 call'.history = <<>>
          /\ id \in DOMAIN _conversation_cache =>
                 /\ Len(call'.history) = Len(_conversation_cache[id])
                 /\ \A i \in 1..Len(call'.history) :
                        /\ DOMAIN call'.history[i] = {"role", "content"}
                        /\ call'.history[i].role =
                               _conversation_cache[id][i].role
                        /\ call'.history[i].content =
                               _conversation_cache[id][i].content]_vars

\* get_history has just returned [] for a session that has no entry, and
\* has none now, while another session holds max_history messages.
C18_Witness ==
    /\ call.op = "get_history"
    /\ call.id \notin DOMAIN _conversation_cache
    /\ call.history = <<>>
    /\ \E id \in DOMAIN _conversation_cache :
           Len(_conversation_cache[id]) = max_history

(***************************************************************************)
(* The calls of the model (SpecLogged)                                     *)
(***************************************************************************)
\* The model calls logged for an identifier with a clock value in the
\* window that starts at `start`.
InvokedInWindow(log, id, start) ==
    {i \in 1..Len(log[id]) :
        start <= log[id][i] /\ log[id][i] < start + window_seconds}

\* C19: lambda_handler calls the model only after is_allowed admitted the
\* request and validate_input accepted the message, with the history read
\* and the user message stored and nothing yet returned; it calls it once,
\* and a reply, a failure or a timeout all end the request without another
\* call; the assistant message is stored after the reply and before the
\* 200.  So for every identifier, in every window of window_seconds, at
\* most max_requests model calls are made.
C19_CheckpointOrder ==
    [][/\ (pc = "idle" /\ pc' = "invoking") =>
            /\ call'.op = "lambda_handler"
            /\ call'.allowed
            /\ ValidMessage(event')
            /\ now \in {_buckets'[call'.id][i] :
                           i \in 1..Len(Stored(_buckets', call'.id))}
            /\ messages' = Turns(Stored(_conversation_cache, call'.id))
                              \o <<UserTurn(user_input(event'))>>
            /\ Len(Stored(_conversation_cache', call'.id)) >= 1
            /\ Stored(_conversation_cache', call'.id)
                   [Len(Stored(_conversation_cache', call'.id))].role = "user"
            /\ response'.kind = "none"
            /\ invoke_log' = Logged(invoke_log, call'.id, now)
       /\ ~(pc = "idle" /\ pc' = "invoking") => invoke_log' = invoke_log
       /\ pc = "invoking" =>
            \/ call'.op = "invoke_model" /\ pc' = "idle"
            \/ call'.op = "tick" /\ pc' = "invoking"
       /\ (call'.op = "invoke_model" /\ call'.outcome = "reply") =>
            /\ Len(Stored(_conversation_cache', call'.id)) >= 1
            /\ Stored(_conversation_cache', call'.id)
                   [Len(Stored(_conversation_cache', call'.id))].role
                   = "assistant"
            /\ response'.statusCode = 200
       /\ (call'.op = "invoke_model" /\ call'.outcome # "reply") =>
            /\ _conversation_cache' = _conversation_cache
            /\ response'.statusCode = 500
       /\ \A id \in DOMAIN invoke_log' :
              \A start \in 0..now' :
                  Cardinality(InvokedInWindow(invoke_log', id, start))
                      <= max_requests]_vars

\* The model has timed out on a request and the handler has returned its
\* 500, after max_requests model calls for that identifier in one window.
C19_Witness ==
    /\ pc = "idle"
    /\ call.op = "invoke_model"
    /\ call.outcome = "timeout"
    /\ call.id \in DOMAIN invoke_log
    /\ Cardinality(InvokedInWindow(invoke_log, call.id, now)) = max_requests

(***************************************************************************)
(* The turns of one session (Spec)                                         *)
(***************************************************************************)
\* No two neighbours of a stored list have the same role.
Alternates(history) ==
    \A i \in 1..(Len(history) - 1) : history[i].role # history[i + 1].role

\* C20: for requests handled one at a time, no stored history ever holds
\* two neighbouring messages of the same role, whatever the requests'
\* outcomes.
C20_RolesAlternate ==
    \A id \in DOMAIN _conversation_cache :
        Alternates(_conversation_cache[id])

\* Session id is in step when handler position p, event e and store cache
\* are such that its history alternates and ends with the assistant's
\* message, or with the user's while the handler waits for the model's
\* answer to it.
InStep(cache, p, e, id) ==
    LET history == Stored(cache, id) IN
    /\ Alternates(history)
    /\ Len(history) >= 1 =>
           history[Len(history)].role =
               IF p = "invoking" /\ generate_conversation_id(e) = id
               THEN "user"
               ELSE "assistant"

\* The step is the return of a model call for session id that failed.
ModelFailed(id) ==
    call'.op = "invoke_model" /\ call'.id = id /\ call'.outcome # "reply"

\* C20, amended: no stored history ever holds two neighbouring assistant
\* messages; and a session whose turns alternate keeps them alternating,
\* across evictions too, through every step but the failure of a model call
\* made for it, which leaves the user message without its reply.
C20_AlternateUntilFailure ==
    [][\A id \in Ids :
          /\ \A i \in 1..(Len(Stored(_conversation_cache', id)) - 1) :
                 ~ /\ _conversation_cache'[id][i].role = "assistant"
                   /\ _conversation_cache'[id][i + 1].role = "assistant"
          /\ (InStep(_conversation_cache, pc, event, id) /\ ~ModelFailed(id))
                 => InStep(_conversation_cache', pc', event', id)]_vars

\* A reply has just been stored in a full history whose first request has
\* been evicted, and the turns alternate.
C20_Witness ==
    /\ call.op = "invoke_model"
    /\ call.outcome = "reply"
    /\ call.id \in DOMAIN _conversation_cache
    /\ Len(_conversation_cache[call.id]) = max_history
    /\ _conversation_cache[call.id][1].timestamp >= 1
    /\ Alternates(_conversation_cache[call.id])

(***************************************************************************)
(* The rate limiter over time (SpecLimiterFair)                            *)
(***************************************************************************)
\* The clock keeps moving up to its horizon and the clients keep calling:
\* the two conditions under which the limiter is said to recover.
SpecLimiterFair ==
    /\ SpecLimiter
    /\ WF_vars(Tick)
    /\ WF_vars(CallIsAllowed)

\* The oldest timestamp of a bucket that is not empty.
Oldest(bucket) ==
    CHOOSE t \in {bucket[i] : i \in 1..Len(bucket)} :
        \A i \in 1..Len(bucket) : t <= bucket[i]

\* The last call was is_allowed for id, and it returned False / True.
Denied(id) == call.op = "is_allowed" /\ call.id = id /\ ~call.allowed

Admitted(id) == call.op = "is_allowed" /\ call.id = id /\ call.allowed

\* C21: an is_allowed call made when at least window_seconds have passed
\* since the oldest timestamp kept in the identifier's bucket returns True;
\* and an identifier that is denied, with a window's time still ahead of
\* the clock, is admitted again later.
C21_Recovers ==
    /\ [][\A id \in DOMAIN _buckets :
             (/\ call'.op = "is_allowed"
              /\ call'.id = id
              /\ Len(_buckets[id]) >= 1
              /\ now - Oldest(_buckets[id]) >= window_seconds)
             => call'.allowed]_vars
    /\ \A id \in Ids :
           (Denied(id) /\ now + window_seconds <= MaxTime) ~> Admitted(id)

\* An identifier has just been admitted on a bucket that was full, its
\* oldest timestamp a window old: the call before this clock value was
\* denied, this one is let through.
C21_Witness ==
    /\ call.op = "is_allowed"
    /\ call.allowed
    /\ Len(call.before) = max_requests
    /\ now - Oldest(call.before) >= window_seconds
    /\ Len(allowed_log[call.id]) > max_requests

(***************************************************************************)
(* The prompt and the stored history (Spec)                                *)
(***************************************************************************)
\* C22: whenever the model is being called, the prompt holds at most
\* max_history messages and is the session's stored history, roles and
\* contents in order.
C22_PromptIsHistory ==
    pc = "invoking" =>
        /\ Len(messages) <= max_history
        /\ messages = Turns(Stored(_conversation_cache, Session))

\* C22, amended: whenever the model is being called, the prompt holds at
\* most max_history + 1 messages, and the session's stored history is the
\* end of the prompt: all of it while the prompt has at most max_history
\* messages, and all but its first message, the one add_message evicted,
\* when it has max_history + 1.
C22_HistoryEndsPrompt ==
    pc = "invoking" =>
        LET stored == Turns(Stored(_conversation_cache, Session))
            kept   == IF Len(messages) <= max_history
                      THEN Len(messages)
                      ELSE max_history
        IN  /\ Len(messages) >= 1
            /\ Len(messages) <= max_history + 1
            /\ Len(stored) = kept
            /\ \A i \in 1..kept :
                   stored[i] = messages[Len(messages) - kept + i]

\* The model is being called with a prompt of max_history + 1 messages
\* while the store holds max_history: the first message of the prompt is
\* stored no more.
C22_Witness ==
    /\ pc = "invoking"
    /\ Len(messages) = max_history + 1
    /\ Len(Stored(_conversation_cache, Session)) = max_history
    /\ messages # Turns(Stored(_conversation_cache, Session))

====
